---- MODULE Spec2Model ----
(***************************************************************************)
(* Recipe bot: the Recipe entity, the three storage backends               *)
(* (JSONFileStorage, PersistentJSONStorage, PostgreSQLStorage) and the     *)
(* conversation handlers that drive them.                                  *)
(*                                                                         *)
(* A text is a non-empty sequence of lines; a timestamp is an integer; a   *)
(* recipe id "recipe_<user>_<timestamp>" is the tuple                      *)
(* <<"recipe", user, timestamp>>.  An Optional[Recipe] is a sequence of    *)
(* length 0 (None) or 1.                                                   *)
(***************************************************************************)
EXTENDS Integers, Sequences, FiniteSets, TLC

VARIABLES
  backend,     \* the storage class in use
  files,       \* file backends: user -> that user's file
  rows,        \* relational backend: table recipes, in insertion order
  now,         \* the clock
  lastOp,      \* history: the storage call just made
  callers,     \* the two concurrent callers of save_recipe
  genState,    \* generate_conv_handler: user -> conversation state
  addState,    \* add_conv_handler: user -> conversation state
  user_data,   \* context.user_data: user -> scratch dict
  buttons,     \* user -> callback data of the inline buttons sent so far
  ev,          \* history: the update just dispatched and what its handler did
  life         \* the storage object and the bot around it, from start to stop

convVars == <<genState, addState, user_data, buttons, ev>>

vars == <<backend, files, rows, now, lastOp, callers, convVars, life>>

\* ------------------------------------------------------------------ bounds

\* Most recipes the blind-append file backend is driven to hold, all users together.
MaxStored == 3
\* Last clock reading.
MaxClock == 2

Users == {1, 2}
Backends == {"json", "persistent", "postgres"}
FileBackends == {"json", "persistent"}

\* ------------------------------------------------------------ Recipe entity

RecipeId(user_id, ts) == <<"recipe", user_id, ts>>

Recipe(id, name, content, created_at, updated_at, is_ai_generated) ==
  [id |-> id, name |-> name, content |-> content, created_at |-> created_at,
   updated_at |-> updated_at, is_ai_generated |-> is_ai_generated]

\* asdict(self): the fields as an ordered mapping, one <<key, value>> per field.
to_dict(r) ==
  << <<"id", r.id>>, <<"name", r.name>>, <<"content", r.content>>,
     <<"created_at", r.created_at>>, <<"updated_at", r.updated_at>>,
     <<"is_ai_generated", r.is_ai_generated>> >>

HasKey(d, k) == \E i \in 1..Len(d) : d[i][1] = k

Lookup(d, k) == d[CHOOSE i \in 1..Len(d) : d[i][1] = k][2]

\* A from_dict that leaves is_ai_generated to its default.
from_dict_default_flag(d) ==
  Recipe(Lookup(d, "id"), Lookup(d, "name"), Lookup(d, "content"),
         Lookup(d, "created_at"), Lookup(d, "updated_at"), FALSE)

\* cls(**data): every field by keyword; is_ai_generated defaults to False.
from_dict(d) ==
  Recipe(Lookup(d, "id"), Lookup(d, "name"), Lookup(d, "content"),
         Lookup(d, "created_at"), Lookup(d, "updated_at"),
         IF HasKey(d, "is_ai_generated") THEN Lookup(d, "is_ai_generated") ELSE FALSE)

\* A create_new that drops the is_ai_generated argument.
create_new_unflagged(user_id, name, content, is_ai_generated, t) ==
  Recipe(RecipeId(user_id, t), name, content, t, t, FALSE)

\* Recipe.create_new at clock reading t.
create_new(user_id, name, content, is_ai_generated, t) ==
  Recipe(RecipeId(user_id, t), name, content, t, t, is_ai_generated)

\* An update_content that rebuilds the recipe with the default flag.
update_content_unflag(r, new_content, t) ==
  [r EXCEPT !.content = new_content, !.updated_at = t, !.is_ai_generated = FALSE]

\* An update_content that stamps created_at as well.
update_content_restamp(r, new_content, t) ==
  [r EXCEPT !.content = new_content, !.updated_at = t, !.created_at = t]

\* Recipe.update_content at clock reading t.
update_content(r, new_content, t) ==
  [r EXCEPT !.content = new_content, !.updated_at = t]

\* ------------------------------------------------------------ file backends

\* A user's file: absent, unparsable, or a JSON list of recipe objects.
Missing == [kind |-> "missing", data |-> <<>>]
Corrupt == [kind |-> "corrupt", data |-> <<>>]
JsonFile(docs) == [kind |-> "json", data |-> docs]

\* A write that leaves an unparsable file as it found it.
write_file_keep_corrupt(fs, user_id, recipes) ==
  IF fs[user_id].kind = "corrupt" THEN fs
  ELSE [fs EXCEPT ![user_id] = JsonFile([i \in 1..Len(recipes) |-> to_dict(recipes[i])])]

\* json.dump([r.to_dict() for r in recipes], f) over the whole file.
write_file(fs, user_id, recipes) ==
  [fs EXCEPT ![user_id] = JsonFile([i \in 1..Len(recipes) |-> to_dict(recipes[i])])]

\* get_recipes of both file backends: [] when the file is absent or unreadable.
file_get_recipes(fs, user_id) ==
  IF fs[user_id].kind = "missing" THEN <<>>
  ELSE IF fs[user_id].kind = "corrupt" THEN <<>>
  ELSE [i \in 1..Len(fs[user_id].data) |-> from_dict(fs[user_id].data[i])]

\* The first recipe of the list with this id, as an Optional.
first_with_id(recipes, recipe_id) ==
  IF \E i \in 1..Len(recipes) : recipes[i].id = recipe_id
  THEN <<recipes[CHOOSE i \in 1..Len(recipes) :
                   /\ recipes[i].id = recipe_id
                   /\ \A j \in 1..(i - 1) : recipes[j].id # recipe_id]>>
  ELSE <<>>

file_get_recipe(fs, user_id, recipe_id) ==
  first_with_id(file_get_recipes(fs, user_id), recipe_id)

\* The list with its first entry of this id replaced (for ... break).
replace_first(recipes, recipe_id, recipe) ==
  LET i == CHOOSE k \in 1..Len(recipes) :
             /\ recipes[k].id = recipe_id
             /\ \A j \in 1..(k - 1) : recipes[j].id # recipe_id
  IN [recipes EXCEPT ![i] = recipe]

has_id(recipes, recipe_id) == \E i \in 1..Len(recipes) : recipes[i].id = recipe_id

\* A filter that stops at the first match.
without_first_id(recipes, recipe_id) ==
  IF \E i \in 1..Len(recipes) : recipes[i].id = recipe_id
  THEN LET i == CHOOSE k \in 1..Len(recipes) :
                  /\ recipes[k].id = recipe_id
                  /\ \A j \in 1..(k - 1) : recipes[j].id # recipe_id
       IN SubSeq(recipes, 1, i - 1) \o SubSeq(recipes, i + 1, Len(recipes))
  ELSE recipes

\* A filter with the comparison inverted.
only_id(recipes, recipe_id) == SelectSeq(recipes, LAMBDA r : r.id = recipe_id)

\* [r for r in recipes if r.id != recipe_id]
without_id(recipes, recipe_id) == SelectSeq(recipes, LAMBDA r : r.id # recipe_id)

\* A save that writes the new recipe alone.
save_only_new(b, recipes, recipe) == <<recipe>>

\* An insert without the ON CONFLICT clause.
pg_insert_recipe(rs, user_id, recipe) ==
  Append(rs, [id |-> recipe.id, user_id |-> user_id, name |-> recipe.name,
              content |-> recipe.content, created_at |-> recipe.created_at,
              updated_at |-> recipe.updated_at,
              is_ai_generated |-> recipe.is_ai_generated,
              data |-> << <<"id", recipe.id>>, <<"name", recipe.name>>,
                          <<"content", recipe.content>>,
                          <<"created_at", recipe.created_at>>,
                          <<"updated_at", recipe.updated_at>>,
                          <<"is_ai_generated", recipe.is_ai_generated>> >>])

\* JSONFileStorage.save_recipe: recipes.append(recipe).
json_save_list(recipes, recipe) == Append(recipes, recipe)

\* A save that appends whatever the list holds.
persistent_save_append(recipes, recipe) == Append(recipes, recipe)

\* PersistentJSONStorage.save_recipe: replace the entry of the same id or append.
persistent_save_list(recipes, recipe) ==
  IF has_id(recipes, recipe.id) THEN replace_first(recipes, recipe.id, recipe)
  ELSE Append(recipes, recipe)

save_list(b, recipes, recipe) ==
  IF b = "json" THEN json_save_list(recipes, recipe)
  ELSE persistent_save_list(recipes, recipe)

file_save_recipe(b, fs, user_id, recipe) ==
  write_file(fs, user_id, save_list(b, file_get_recipes(fs, user_id), recipe))

\* JSONFileStorage.update_recipe(user_id, recipe_id, recipe): nothing is written
\* when no entry has the id.
json_update_recipe(fs, user_id, recipe_id, recipe) ==
  LET recipes == file_get_recipes(fs, user_id)
  IN IF has_id(recipes, recipe_id)
     THEN write_file(fs, user_id, replace_first(recipes, recipe_id, recipe))
     ELSE fs

\* PersistentJSONStorage.update_recipe(user_id, recipe): save_recipe.
persistent_update_recipe(fs, user_id, recipe) ==
  file_save_recipe("persistent", fs, user_id, recipe)

file_delete_recipe(fs, user_id, recipe_id) ==
  write_file(fs, user_id, without_id(file_get_recipes(fs, user_id), recipe_id))

\* ------------------------------------------------------- relational backend

\* One row of table recipes; data is json.dumps(recipe.to_dict()).
Row(user_id, recipe) ==
  [id |-> recipe.id, user_id |-> user_id, name |-> recipe.name,
   content |-> recipe.content, created_at |-> recipe.created_at,
   updated_at |-> recipe.updated_at, is_ai_generated |-> recipe.is_ai_generated,
   data |-> to_dict(recipe)]

has_row(rs, recipe_id) == \E i \in 1..Len(rs) : rs[i].id = recipe_id

\* INSERT ... ON CONFLICT (id) DO UPDATE SET name, content, updated_at, data:
\* one statement; a row of the same id keeps its user_id, created_at and
\* is_ai_generated columns.
pg_save_recipe(rs, user_id, recipe) ==
  IF has_row(rs, recipe.id)
  THEN [i \in 1..Len(rs) |->
          IF rs[i].id = recipe.id
          THEN [rs[i] EXCEPT !.name = recipe.name, !.content = recipe.content,
                             !.updated_at = recipe.updated_at,
                             !.data = to_dict(recipe)]
          ELSE rs[i]]
  ELSE Append(rs, Row(user_id, recipe))

\* x placed after the rows whose created_at is not smaller (ORDER BY ... DESC).
insert_desc(sorted, x) ==
  LET k == Cardinality({i \in 1..Len(sorted) : sorted[i].created_at >= x.created_at})
  IN SubSeq(sorted, 1, k) \o <<x>> \o SubSeq(sorted, k + 1, Len(sorted))

RECURSIVE order_by_created_desc(_)
order_by_created_desc(rs) ==
  IF rs = <<>> THEN <<>>
  ELSE insert_desc(order_by_created_desc(SubSeq(rs, 1, Len(rs) - 1)), rs[Len(rs)])

\* SELECT data FROM recipes WHERE user_id = $1 ORDER BY created_at DESC
pg_get_recipes(rs, user_id) ==
  LET hit == order_by_created_desc(SelectSeq(rs, LAMBDA row : row.user_id = user_id))
  IN [i \in 1..Len(hit) |-> from_dict(hit[i].data)]

\* SELECT data FROM recipes WHERE user_id = $1 AND id = $2
pg_get_recipe(rs, user_id, recipe_id) ==
  LET hit == SelectSeq(rs, LAMBDA row : row.user_id = user_id /\ row.id = recipe_id)
  IN IF hit = <<>> THEN <<>> ELSE <<from_dict(hit[1].data)>>

\* PostgreSQLStorage.update_recipe(user_id, recipe) at clock reading t.
pg_update_recipe(rs, user_id, recipe, t) ==
  pg_save_recipe(rs, user_id, [recipe EXCEPT !.updated_at = t])

\* DELETE FROM recipes WHERE user_id = $1 AND id = $2
pg_delete_recipe(rs, user_id, recipe_id) ==
  SelectSeq(rs, LAMBDA row : ~(row.user_id = user_id /\ row.id = recipe_id))

\* --------------------------------------------------------- StorageInterface

\* The persisted state of the configured backend.
Store == [files |-> files, rows |-> rows]

get_recipes(b, st, user_id) ==
  IF b = "postgres" THEN pg_get_recipes(st.rows, user_id)
  ELSE file_get_recipes(st.files, user_id)

get_recipe(b, st, user_id, recipe_id) ==
  IF b = "postgres" THEN pg_get_recipe(st.rows, user_id, recipe_id)
  ELSE file_get_recipe(st.files, user_id, recipe_id)

save_recipe(b, st, user_id, recipe) ==
  IF b = "postgres" THEN [st EXCEPT !.rows = pg_save_recipe(st.rows, user_id, recipe)]
  ELSE [st EXCEPT !.files = file_save_recipe(b, st.files, user_id, recipe)]

delete_recipe(b, st, user_id, recipe_id) ==
  IF b = "postgres" THEN [st EXCEPT !.rows = pg_delete_recipe(st.rows, user_id, recipe_id)]
  ELSE [st EXCEPT !.files = file_delete_recipe(st.files, user_id, recipe_id)]

\* Positional parameters after self that each backend's update_recipe declares.
update_arity(b) == IF b = "json" THEN 3 ELSE 2

\* A call update_recipe(user_id, recipe_id, recipe) (nargs = 3, the interface's
\* form) or update_recipe(user_id, recipe) (nargs = 2) at clock reading t:
\* TypeError when the backend's method declares another number of parameters.
update_recipe(b, st, user_id, recipe_id, recipe, nargs, t) ==
  IF nargs # update_arity(b) THEN [raised |-> TRUE, st |-> st]
  ELSE IF b = "json"
    THEN [raised |-> FALSE,
          st |-> [st EXCEPT !.files = json_update_recipe(st.files, user_id, recipe_id, recipe)]]
  ELSE IF b = "persistent"
    THEN [raised |-> FALSE,
          st |-> [st EXCEPT !.files = persistent_update_recipe(st.files, user_id, recipe)]]
  ELSE [raised |-> FALSE,
        st |-> [st EXCEPT !.rows = pg_update_recipe(st.rows, user_id, recipe, t)]]

\* ------------------------------------------------------ conversation state

BotUsers == {1}

END == "END"

\* context.user_data: each key absent (<<>>) or holding a value.
EmptyData == [recipe_name |-> <<>>, editing_recipe_id |-> <<>>, original_recipe |-> <<>>]

\* context.user_data.clear()
clear_data(d) == EmptyData

NoEvent == [kind |-> "none", user |-> 0, data |-> <<>>, handler |-> "none",
            raised |-> FALSE, llm |-> <<>>, reads |-> 0, writes |-> 0, replies |-> <<>>,
            returned |-> <<>>]

Reply(kind, text) == [kind |-> kind, text |-> text]

IdleConv ==
  /\ genState = [u \in BotUsers |-> END]
  /\ addState = [u \in BotUsers |-> END]
  /\ user_data = [u \in BotUsers |-> EmptyData]
  /\ buttons = [u \in BotUsers |-> {}]
  /\ ev = NoEvent

\* ------------------------------------------------ storage calls, one by one


\* The recipes callers hand to the storage interface: two ids, two payloads each.
StorageIds == {RecipeId(1, 1), RecipeId(1, 2)}
StorageRecipes ==
  {Recipe(id, <<"Soup">>, <<"Soup", "boil">>, 1, 1, FALSE) : id \in StorageIds}
  \cup {Recipe(id, <<"Stew">>, <<"Stew", "simmer">>, 2, 2, TRUE) : id \in StorageIds}

\* Nothing constructed yet: RecipeBot.__init__ leaves storage and application
\* None, PostgreSQLStorage.__init__ leaves pool None.
NoLife == [pc |-> "new", path |-> "none", pool |-> "none", attempt |-> 0,
           connects |-> 0, sleeps |-> <<>>, app |-> "none", raised |-> <<>>,
           closes |-> 0, storage |-> "none", primary |-> "none", round |-> 0,
           init |-> "never"]

NoOp == [op |-> "none", user |-> 0, id |-> <<>>, recipe |-> <<>>, nargs |-> 0,
         raised |-> FALSE, found |-> FALSE, file |-> "none"]

\* What a call finds at the user's file path: nothing, an unparsable file, or
\* a JSON list ("none" on the relational backend).
file_before(u) == IF backend \in FileBackends THEN files[u].kind ELSE "none"

NoCallers == [c \in {1, 2} |-> [pc |-> "idle", user |-> 0, recipe |-> <<>>,
                                local |-> <<>>, serial |-> FALSE]]

\* The state after construction: the storage directory may hold files of an
\* earlier run, readable or not; the table is empty.  The calls are made at
\* one clock reading, later than every timestamp a passed recipe carries.
StorageInit ==
  /\ life = NoLife
  /\ backend \in Backends
  /\ files \in [Users -> {Missing, Corrupt}]
  /\ rows = <<>>
  /\ now = MaxClock + 1
  /\ lastOp = NoOp
  /\ callers = NoCallers
  /\ IdleConv

RECURSIVE SumLen(_, _)
SumLen(st, us) ==
  IF us = {} THEN 0
  ELSE LET u == CHOOSE x \in us : TRUE
       IN Len(get_recipes(backend, st, u)) + SumLen(st, us \ {u})

\* Recipes held, all users together.
Stored == SumLen(Store, Users)

\* lastOp records the call just made: its arguments, whether it raised, and
\* whether the id was in the user's collection when it was made.
SaveRecipe(u, r) ==
  /\ backend = "json" => Stored < MaxStored
  /\ LET st == save_recipe(backend, Store, u, r)
     IN /\ files' = st.files
        /\ rows' = st.rows
  /\ lastOp' = [op |-> "save", user |-> u, id |-> r.id, recipe |-> <<r>>, nargs |-> 2,
                raised |-> FALSE, found |-> get_recipe(backend, Store, u, r.id) # <<>>,
                file |-> file_before(u)]
  /\ UNCHANGED <<backend, life, now, callers, convVars>>

\* A caller passes what StorageInterface.update_recipe declares (3 arguments)
\* or what the backend's own method declares.
UpdateRecipe(u, rid, r, nargs) ==
  /\ nargs = 3 \/ nargs = update_arity(backend)
  /\ nargs = 2 => rid = r.id
  /\ LET res == update_recipe(backend, Store, u, rid, r, nargs, now)
     IN /\ files' = res.st.files
        /\ rows' = res.st.rows
        /\ lastOp' = [op |-> "update", user |-> u, id |-> rid, recipe |-> <<r>>,
                      nargs |-> nargs, raised |-> res.raised,
                      found |-> get_recipe(backend, Store, u, rid) # <<>>,
                      file |-> file_before(u)]
  /\ UNCHANGED <<backend, life, now, callers, convVars>>

DeleteRecipe(u, rid) ==
  /\ LET st == delete_recipe(backend, Store, u, rid)
     IN /\ files' = st.files
        /\ rows' = st.rows
  /\ lastOp' = [op |-> "delete", user |-> u, id |-> rid, recipe |-> <<>>, nargs |-> 2,
                raised |-> FALSE, found |-> get_recipe(backend, Store, u, rid) # <<>>,
                file |-> file_before(u)]
  /\ UNCHANGED <<backend, life, now, callers, convVars>>

StorageNext ==
  \/ \E u \in Users, r \in StorageRecipes : SaveRecipe(u, r)
  \/ \E u \in Users, rid \in StorageIds, r \in StorageRecipes, nargs \in {2, 3} :
       UpdateRecipe(u, rid, r, nargs)
  \/ \E u \in Users, rid \in StorageIds : DeleteRecipe(u, rid)

StorageSpec == StorageInit /\ [][StorageNext]_vars

\* ------------------------------------------------ claims on single calls

\* The store after the step.
StoreNext == [files |-> files', rows |-> rows']

\* C1: once save_recipe(u, r) has completed, get_recipe(u, r.id) returns a
\* recipe equal to r in all six fields, also when the id was already stored.
C1_SaveThenGet ==
  lastOp.op = "save" =>
    get_recipe(backend, Store, lastOp.user, lastOp.id) = lastOp.recipe

\* C3: update_recipe with an id that is not in the user's collection does not
\* raise and leaves the collection as it was.
C3_UpdateAbsentIsNoOp ==
  [][(lastOp'.op = "update" /\ ~lastOp'.found) =>
       /\ ~lastOp'.raised
       /\ get_recipes(backend, StoreNext, lastOp'.user)
            = get_recipes(backend, Store, lastOp'.user)]_vars

\* C4: after delete_recipe(u, id), get_recipe(u, id) is None and no recipe of
\* get_recipes(u) has the id.
C4_DeletedIsGone ==
  lastOp.op = "delete" =>
    /\ get_recipe(backend, Store, lastOp.user, lastOp.id) = <<>>
    /\ ~has_id(get_recipes(backend, Store, lastOp.user), lastOp.id)

\* A present recipe was deleted and another of the same user remains.
C4_Witness ==
  /\ lastOp.op = "delete"
  /\ lastOp.found
  /\ get_recipes(backend, Store, lastOp.user) # <<>>

\* C5: delete_recipe(u, id) with an id that is not in u's collection does not
\* raise and get_recipes(u) returns the same sequence before and after.
C5_DeleteAbsentKeepsList ==
  [][(lastOp'.op = "delete" /\ ~lastOp'.found) =>
       /\ ~lastOp'.raised
       /\ get_recipes(backend, StoreNext, lastOp'.user)
            = get_recipes(backend, Store, lastOp'.user)]_vars

\* An absent id was deleted from a collection that holds recipes.
C5_Witness ==
  /\ lastOp.op = "delete"
  /\ ~lastOp.found
  /\ get_recipes(backend, Store, lastOp.user) # <<>>

\* --------------------------------------- two concurrent save_recipe calls

\* Each of two callers makes one save_recipe call.  The file backends read the
\* user's file and later rewrite it, with no lock between the two; the
\* relational backend executes one statement.  serial records that the other
\* caller's write was already done when this caller read (or executed).
Other(c) == 3 - c

ConcInit ==
  /\ life = NoLife
  /\ backend \in Backends
  /\ IF backend \in FileBackends
     THEN /\ files \in [Users -> {Missing, Corrupt}
                                 \cup {JsonFile(<<to_dict(r)>>) : r \in StorageRecipes}]
          /\ rows = <<>>
     ELSE /\ files = [u \in Users |-> Missing]
          /\ rows \in {<<>>} \cup {<<Row(u, r)>> : u \in Users, r \in StorageRecipes}
  /\ now = MaxClock + 1
  /\ lastOp = NoOp
  /\ callers = NoCallers
  /\ IdleConv

CallSave(c, u, r) ==
  /\ callers[c].pc = "idle"
  /\ callers' = [callers EXCEPT ![c] = [@ EXCEPT !.pc = "called", !.user = u,
                                                 !.recipe = <<r>>]]
  /\ UNCHANGED <<backend, life, files, rows, now, lastOp, convVars>>

\* recipes = await self.get_recipes(user_id)
FileRead(c) ==
  /\ backend \in FileBackends
  /\ callers[c].pc = "called"
  /\ callers' = [callers EXCEPT ![c] =
                   [@ EXCEPT !.pc = "read",
                             !.local = file_get_recipes(files, callers[c].user),
                             !.serial = (callers[Other(c)].pc = "done")]]
  /\ UNCHANGED <<backend, life, files, rows, now, lastOp, convVars>>

\* with open(file_path, 'w') ...: json.dump(...)
FileWrite(c) ==
  /\ backend \in FileBackends
  /\ callers[c].pc = "read"
  /\ files' = write_file(files, callers[c].user,
                         save_list(backend, callers[c].local, callers[c].recipe[1]))
  /\ callers' = [callers EXCEPT ![c] = [@ EXCEPT !.pc = "done"]]
  /\ UNCHANGED <<backend, life, rows, now, lastOp, convVars>>

\* await conn.execute(INSERT ... ON CONFLICT ...)
PgExecute(c) ==
  /\ backend = "postgres"
  /\ callers[c].pc = "called"
  /\ rows' = pg_save_recipe(rows, callers[c].user, callers[c].recipe[1])
  /\ callers' = [callers EXCEPT ![c] =
                   [@ EXCEPT !.pc = "done",
                             !.serial = (callers[Other(c)].pc = "done")]]
  /\ UNCHANGED <<backend, life, files, now, lastOp, convVars>>

ConcNext ==
  \/ \E c \in {1, 2}, u \in Users, r \in StorageRecipes : CallSave(c, u, r)
  \/ \E c \in {1, 2} : FileRead(c)
  \/ \E c \in {1, 2} : FileWrite(c)
  \/ \E c \in {1, 2} : PgExecute(c)

ConcSpec == ConcInit /\ [][ConcNext]_vars

BothDone == callers[1].pc = "done" /\ callers[2].pc = "done"

SameUser == callers[1].user = callers[2].user

\* The recipe caller c saved is in its user's collection, equal in all fields.
Kept(c) ==
  \E i \in 1..Len(get_recipes(backend, Store, callers[c].user)) :
    get_recipes(backend, Store, callers[c].user)[i] = callers[c].recipe[1]

\* C6: on a file backend two concurrent save_recipe calls of one user can both
\* complete and leave only one of the two recipes in the file.  Stated with
\* its limits: the recipe written last is always there, and with different
\* ids both are there whenever one call read after the other had written.
C6_LostUpdateOnlyWhenInterleaved ==
  (backend \in FileBackends /\ BothDone /\ SameUser) =>
     /\ Kept(1) \/ Kept(2)
     /\ (/\ callers[1].recipe[1].id # callers[2].recipe[1].id
         /\ callers[1].serial \/ callers[2].serial) => (Kept(1) /\ Kept(2))

\* The lost update: both calls completed, the ids differ, one recipe is missing.
C6_Witness ==
  /\ backend \in FileBackends
  /\ BothDone
  /\ SameUser
  /\ callers[1].recipe[1].id # callers[2].recipe[1].id
  /\ ~(Kept(1) /\ Kept(2))

RowsWithId(recipe_id) == {i \in 1..Len(rows) : rows[i].id = recipe_id}

\* C7: on the relational backend, after two concurrent save_recipe calls of
\* one user, different ids leave both rows, each with its call's payload, and
\* one id leaves exactly one row whose payload is that of the call executed
\* last.
C7_RelationalKeepsBothWrites ==
  (backend = "postgres" /\ BothDone /\ SameUser) =>
     IF callers[1].recipe[1].id # callers[2].recipe[1].id
     THEN \A c \in {1, 2} :
            /\ Cardinality(RowsWithId(callers[c].recipe[1].id)) = 1
            /\ \A i \in RowsWithId(callers[c].recipe[1].id) :
                 from_dict(rows[i].data) = callers[c].recipe[1]
     ELSE /\ Cardinality(RowsWithId(callers[1].recipe[1].id)) = 1
          /\ \A i \in RowsWithId(callers[1].recipe[1].id), c \in {1, 2} :
               callers[c].serial => from_dict(rows[i].data) = callers[c].recipe[1]
          /\ callers[1].serial # callers[2].serial

\* Two calls with one id and different payloads have both completed.
C7_Witness ==
  /\ backend = "postgres"
  /\ BothDone
  /\ SameUser
  /\ callers[1].recipe[1].id = callers[2].recipe[1].id
  /\ callers[1].recipe[1] # callers[2].recipe[1]

\* ---------------------------------------------------- language-model client

GeneratedText == <<"", "Pancakes", "mix">>
GenerateFailedText == <<"Sorry, I couldn't generate a recipe at this time. Please try again later.">>
ImprovedText == <<"Pancakes", "mix", "fry">>

\* OpenAILLM.generate_recipe: the model's text, or a message when the request fails.
llm_generate_recipe(ingredients, ok) ==
  IF ok THEN GeneratedText ELSE GenerateFailedText

\* LLMInterface.update_recipe: the improved text, or an exception (<<>>).
llm_update_recipe(content, ok) ==
  IF ok THEN <<ImprovedText>> ELSE <<>>

LLMCall(fn, arg, out) == [fn |-> fn, arg |-> arg, out |-> out]

\* ------------------------------------------------------------------ handlers

UserTexts == {<<"Soup">>, <<"Stew", "simmer">>}

\* str.strip() at the head of the text: leading blank lines go.
RECURSIVE lstrip(_)
lstrip(text) ==
  IF text = <<>> THEN <<>>
  ELSE IF text[1] = "" THEN lstrip(Tail(text)) ELSE text

\* A name that is always the fallback "Generated Recipe".
first_line_fallback(content) == <<"Generated Recipe">>

\* lines = recipe_content.strip().split('\n'); lines[0].strip()
first_line(content) ==
  IF lstrip(content) = <<>> THEN <<"">> ELSE <<lstrip(content)[1]>>

ListButton == <<"list", <<>>>>

\* One "view_<id>" button per recipe of the list.
view_buttons(recipes) == {<<"view", recipes[i].id>> : i \in 1..Len(recipes)}

\* A list that always renders a menu, an empty one included.
list_reply_menu(recipes) ==
  Reply("list", [i \in 1..Len(recipes) |-> recipes[i].id])

\* A list that renders only the newest entry.
list_reply_first(recipes) ==
  IF recipes = <<>> THEN Reply("no_recipes", <<>>)
  ELSE Reply("list", <<recipes[1].id>>)

\* The reply of list_recipes and _handle_list_recipes.
list_reply(recipes) ==
  IF recipes = <<>> THEN Reply("no_recipes", <<>>)
  ELSE Reply("list", [i \in 1..Len(recipes) |-> recipes[i].id])

Event(kind, u, data, handler, raised, llm, reads, writes, replies) ==
  [kind |-> kind, user |-> u, data |-> data, handler |-> handler, raised |-> raised,
   llm |-> llm, reads |-> reads, writes |-> writes, replies |-> replies,
   returned |-> <<>>]

\* The same event, of a handler that returns a conversation state.
Returning(e, state) == [e EXCEPT !.returned = <<state>>]

\* An update no registered handler accepts.
Unhandled(kind, u, data) ==
  /\ ev' = Event(kind, u, data, "none", FALSE, <<>>, 0, 0, <<>>)
  /\ UNCHANGED <<backend, life, files, rows, now, lastOp, callers,
                 genState, addState, user_data, buttons>>

\* /start and /help: CommandHandlers registered ahead of the conversations.
CmdStart(u) ==
  /\ ev' = Event("cmd_start", u, <<>>, "start_command", FALSE, <<>>, 0, 0,
                 <<Reply("welcome", <<>>)>>)
  /\ UNCHANGED <<backend, life, files, rows, now, lastOp, callers,
                 genState, addState, user_data, buttons>>

CmdHelp(u) ==
  /\ ev' = Event("cmd_help", u, <<>>, "help_command", FALSE, <<>>, 0, 0,
                 <<Reply("help", <<>>)>>)
  /\ UNCHANGED <<backend, life, files, rows, now, lastOp, callers,
                 genState, addState, user_data, buttons>>

\* /list: list_recipes, whatever the conversation states.
CmdList(u) ==
  /\ buttons' = [buttons EXCEPT ![u] = @ \cup view_buttons(get_recipes(backend, Store, u))]
  /\ ev' = Event("cmd_list", u, <<>>, "list_recipes", FALSE, <<>>, 1, 0,
                 <<list_reply(get_recipes(backend, Store, u))>>)
  /\ UNCHANGED <<backend, life, files, rows, now, lastOp, callers,
                 genState, addState, user_data>>

\* /generate: the entry point of generate_conv_handler, taken only outside
\* that conversation.
CmdGenerate(u) ==
  IF genState[u] = END
  THEN /\ genState' = [genState EXCEPT ![u] = "WAITING_FOR_INGREDIENTS"]
       /\ ev' = Returning(Event("cmd_generate", u, <<>>, "generate_start", FALSE, <<>>, 0, 0,
                      <<Reply("generate_prompt", <<>>)>>), "WAITING_FOR_INGREDIENTS")
       /\ UNCHANGED <<backend, life, files, rows, now, lastOp, callers,
                      addState, user_data, buttons>>
  ELSE Unhandled("cmd_generate", u, <<>>)

\* /add: generate_conv_handler never accepts it; add_conv_handler takes it as
\* its entry point outside its conversation.
CmdAdd(u) ==
  IF addState[u] = END
  THEN /\ addState' = [addState EXCEPT ![u] = "WAITING_FOR_RECIPE_NAME"]
       /\ ev' = Returning(Event("cmd_add", u, <<>>, "add_recipe_start", FALSE, <<>>, 0, 0,
                      <<Reply("add_prompt", <<>>)>>), "WAITING_FOR_RECIPE_NAME")
       /\ UNCHANGED <<backend, life, files, rows, now, lastOp, callers,
                      genState, user_data, buttons>>
  ELSE Unhandled("cmd_add", u, <<>>)

\* /cancel: a fallback of each ConversationHandler; the first of the two that
\* is in a conversation runs cancel_command and ends its own conversation.
CmdCancel(u) ==
  IF genState[u] # END
  THEN /\ genState' = [genState EXCEPT ![u] = END]
       /\ user_data' = [user_data EXCEPT ![u] = clear_data(@)]
       /\ ev' = Returning(Event("cmd_cancel", u, <<>>, "cancel_command", FALSE, <<>>, 0, 0,
                      <<Reply("cancelled", <<>>)>>), END)
       /\ UNCHANGED <<backend, life, files, rows, now, lastOp, callers, addState, buttons>>
  ELSE IF addState[u] # END
  THEN /\ addState' = [addState EXCEPT ![u] = END]
       /\ user_data' = [user_data EXCEPT ![u] = clear_data(@)]
       /\ ev' = Returning(Event("cmd_cancel", u, <<>>, "cancel_command", FALSE, <<>>, 0, 0,
                      <<Reply("cancelled", <<>>)>>), END)
       /\ UNCHANGED <<backend, life, files, rows, now, lastOp, callers, genState, buttons>>
  ELSE Unhandled("cmd_cancel", u, <<>>)

\* RecipeHandlers.generate_recipe: a text message in WAITING_FOR_INGREDIENTS.
GenerateRecipe(u, text, llm_ok) ==
  /\ genState[u] = "WAITING_FOR_INGREDIENTS"
  /\ now < MaxClock
  /\ now' = now + 1
  /\ LET recipe_content == llm_generate_recipe(text, llm_ok)
         recipe == create_new(u, first_line(recipe_content), recipe_content, TRUE, now')
         st == save_recipe(backend, Store, u, recipe)
     IN /\ files' = st.files
        /\ rows' = st.rows
        /\ ev' = Returning(Event("text", u, text, "generate_recipe", FALSE,
                       <<LLMCall("generate_recipe", text, <<recipe_content>>)>>, 0, 1,
                       <<Reply("creating", <<>>), Reply("generated", recipe_content)>>), END)
  /\ genState' = [genState EXCEPT ![u] = END]
  /\ UNCHANGED <<backend, life, lastOp, callers, addState, user_data, buttons>>

\* RecipeHandlers.add_recipe_name: a text message in WAITING_FOR_RECIPE_NAME
\* that generate_conv_handler did not take.
AddRecipeName(u, text) ==
  /\ genState[u] = END
  /\ addState[u] = "WAITING_FOR_RECIPE_NAME"
  /\ user_data' = [user_data EXCEPT ![u].recipe_name = <<text>>]
  /\ addState' = [addState EXCEPT ![u] = "WAITING_FOR_RECIPE_CONTENT"]
  /\ ev' = Returning(Event("text", u, text, "add_recipe_name", FALSE, <<>>, 0, 0,
                 <<Reply("content_prompt", <<>>)>>), "WAITING_FOR_RECIPE_CONTENT")
  /\ UNCHANGED <<backend, life, files, rows, now, lastOp, callers, genState, buttons>>

\* RecipeHandlers.add_recipe_content: a text message in
\* WAITING_FOR_RECIPE_CONTENT; KeyError when user_data holds no recipe_name,
\* and then the conversation keeps its state.
AddRecipeContent(u, text) ==
  /\ genState[u] = END
  /\ addState[u] = "WAITING_FOR_RECIPE_CONTENT"
  /\ IF user_data[u].recipe_name = <<>>
     THEN /\ ev' = Event("text", u, text, "add_recipe_content", TRUE, <<>>, 0, 0, <<>>)
          /\ UNCHANGED <<backend, life, files, rows, now, lastOp, callers,
                         genState, addState, user_data, buttons>>
     ELSE /\ now < MaxClock
          /\ now' = now + 1
          /\ LET recipe == create_new(u, user_data[u].recipe_name[1], text, FALSE, now')
                 st == save_recipe(backend, Store, u, recipe)
             IN /\ files' = st.files
                /\ rows' = st.rows
                /\ ev' = Returning(Event("text", u, text, "add_recipe_content", FALSE, <<>>, 0, 1,
                               <<Reply("saved", recipe.name)>>), END)
          /\ user_data' = [user_data EXCEPT ![u] = clear_data(@)]
          /\ addState' = [addState EXCEPT ![u] = END]
          /\ UNCHANGED <<backend, life, lastOp, callers, genState, buttons>>

\* The same message when a MessageHandler for text is registered outside the
\* conversations and takes it as a recipe name.
TextTaken(u, text) ==
  /\ genState[u] = END
  /\ addState[u] = END
  /\ user_data' = [user_data EXCEPT ![u].recipe_name = <<text>>]
  /\ ev' = Event("text", u, text, "add_recipe_name", FALSE, <<>>, 0, 0,
                 <<Reply("content_prompt", <<>>)>>)
  /\ UNCHANGED <<backend, life, files, rows, now, lastOp, callers, genState, addState, buttons>>

\* A text message outside the three waiting states of the two conversations.
TextIgnored(u, text) ==
  /\ genState[u] = END
  /\ addState[u] = END
  /\ Unhandled("text", u, text)

\* handle_callback is the CallbackQueryHandler's callback: it runs for every
\* button press, in any conversation state, and the value it returns is not
\* kept by any ConversationHandler.

\* data "view_<id>": _handle_view_recipe; no reply when the recipe is absent.
ViewRecipe(u, id) ==
  /\ <<"view", id>> \in buttons[u]
  /\ LET recipe == get_recipe(backend, Store, u, id)
     IN IF recipe # <<>>
        THEN /\ buttons' = [buttons EXCEPT ![u] =
                              @ \cup {<<"edit", id>>, <<"delete", id>>, ListButton}]
             /\ ev' = Event("callback", u, <<"view", id>>, "handle_callback", FALSE,
                            <<>>, 1, 0, <<Reply("view", recipe[1].content)>>)
        ELSE /\ buttons' = buttons
             /\ ev' = Event("callback", u, <<"view", id>>, "handle_callback", FALSE,
                            <<>>, 1, 0, <<>>)
  /\ UNCHANGED <<backend, life, files, rows, now, lastOp, callers,
                 genState, addState, user_data>>

\* data "edit_<id>": _handle_edit_recipe.
EditRecipe(u, id) ==
  /\ <<"edit", id>> \in buttons[u]
  /\ LET recipe == get_recipe(backend, Store, u, id)
     IN user_data' = [user_data EXCEPT ![u] =
                        [@ EXCEPT !.editing_recipe_id = <<id>>,
                                  !.original_recipe =
                                     IF recipe # <<>> THEN <<recipe[1].content>> ELSE @]]
  /\ buttons' = [buttons EXCEPT ![u] =
                   @ \cup {<<"manual_edit", id>>, <<"ai_verify", id>>, <<"view", id>>}]
  /\ ev' = Returning(Event("callback", u, <<"edit", id>>, "handle_callback", FALSE, <<>>, 1, 0,
                 <<Reply("edit_menu", <<>>)>>), "CHOOSING_EDIT_TYPE")
  /\ UNCHANGED <<backend, life, files, rows, now, lastOp, callers, genState, addState>>

\* data "manual_edit_<id>".
ManualEdit(u, id) ==
  /\ <<"manual_edit", id>> \in buttons[u]
  /\ user_data' = [user_data EXCEPT ![u].editing_recipe_id = <<id>>]
  /\ ev' = Returning(Event("callback", u, <<"manual_edit", id>>, "handle_callback", FALSE,
                 <<>>, 0, 0, <<Reply("update_prompt", <<>>)>>), "WAITING_FOR_RECIPE_UPDATE")
  /\ UNCHANGED <<backend, life, files, rows, now, lastOp, callers, genState, addState, buttons>>

\* data "delete_<id>": _handle_delete_recipe, then _handle_list_recipes.
DeleteButton(u, id) ==
  /\ <<"delete", id>> \in buttons[u]
  /\ LET st == delete_recipe(backend, Store, u, id)
     IN /\ files' = st.files
        /\ rows' = st.rows
        /\ buttons' = [buttons EXCEPT ![u] = @ \cup view_buttons(get_recipes(backend, st, u))]
        /\ ev' = Event("callback", u, <<"delete", id>>, "handle_callback", FALSE,
                       <<>>, 1, 1,
                       <<Reply("deleted", <<>>), list_reply(get_recipes(backend, st, u))>>)
  /\ UNCHANGED <<backend, life, now, lastOp, callers, genState, addState, user_data>>

\* data "list": _handle_list_recipes.
ListRecipes(u) ==
  /\ ListButton \in buttons[u]
  /\ buttons' = [buttons EXCEPT ![u] = @ \cup view_buttons(get_recipes(backend, Store, u))]
  /\ ev' = Event("callback", u, ListButton, "handle_callback", FALSE, <<>>, 1, 0,
                 <<list_reply(get_recipes(backend, Store, u))>>)
  /\ UNCHANGED <<backend, life, files, rows, now, lastOp, callers,
                 genState, addState, user_data>>

\* data "ai_verify_<id>": verify_recipe, while the clock is below the reading
\* last.  The recipe is the one user_data
\* names; storage.update_recipe is called with (user_id, recipe_id, recipe),
\* and whatever the try block raises is answered with the error message.
VerifyRecipeUntil(u, id, llm_ok, last) ==
  /\ <<"ai_verify", id>> \in buttons[u]
  /\ IF user_data[u].editing_recipe_id = <<>>
     THEN /\ ev' = Returning(Event("callback", u, <<"ai_verify", id>>, "verify_recipe", FALSE,
                         <<>>, 0, 0, <<Reply("no_selection", <<>>)>>), END)
          /\ UNCHANGED <<files, rows, now, user_data, buttons>>
     ELSE LET recipe_id == user_data[u].editing_recipe_id[1]
              found == get_recipe(backend, Store, u, recipe_id)
          IN IF found = <<>>
             THEN /\ ev' = Returning(Event("callback", u, <<"ai_verify", id>>, "verify_recipe",
                                 FALSE, <<>>, 1, 0, <<Reply("not_found", <<>>)>>), END)
                  /\ UNCHANGED <<files, rows, now, user_data, buttons>>
             ELSE LET improved == llm_update_recipe(found[1].content, llm_ok)
                      call == LLMCall("update_recipe", found[1].content, improved)
                  IN IF improved = <<>>
                     THEN /\ ev' = Returning(Event("callback", u, <<"ai_verify", id>>,
                                         "verify_recipe", FALSE, <<call>>, 1, 0,
                                         <<Reply("verifying", <<>>),
                                           Reply("verify_error", <<>>)>>), END)
                          /\ user_data' = [user_data EXCEPT ![u] = clear_data(@)]
                          /\ UNCHANGED <<files, rows, now, buttons>>
                     ELSE /\ now < last
                          /\ now' = now + 1
                          /\ LET recipe == [update_content(found[1], improved[1], now')
                                              EXCEPT !.is_ai_generated = TRUE]
                                 res == update_recipe(backend, Store, u, recipe_id,
                                                      recipe, 3, now')
                             IN /\ files' = res.st.files
                                /\ rows' = res.st.rows
                                /\ IF res.raised
                                   THEN /\ buttons' = buttons
                                        /\ ev' = Returning(Event("callback", u, <<"ai_verify", id>>,
                                                       "verify_recipe", FALSE, <<call>>, 1, 1,
                                                       <<Reply("verifying", <<>>),
                                                         Reply("verify_error", <<>>)>>), END)
                                   ELSE /\ buttons' = [buttons EXCEPT ![u] =
                                              @ \cup {<<"view", recipe_id>>, ListButton}]
                                        /\ ev' = Returning(Event("callback", u, <<"ai_verify", id>>,
                                                       "verify_recipe", FALSE, <<call>>, 1, 1,
                                                       <<Reply("verifying", <<>>),
                                                         Reply("verified", improved[1])>>), END)
                          /\ user_data' = [user_data EXCEPT ![u] = clear_data(@)]
  /\ UNCHANGED <<backend, life, lastOp, callers, genState, addState>>

\* verify_recipe while the clock is below its last reading.
VerifyRecipe(u, id, llm_ok) == VerifyRecipeUntil(u, id, llm_ok, MaxClock)

\* Every recipe id a handler can have created by now.
IssuedIds == {RecipeId(u, t) : u \in BotUsers, t \in 1..MaxClock}

\* initialize_storage builds PostgreSQLStorage or PersistentJSONStorage.
BotBackends == {"persistent", "postgres"}

\* The state after setup_application: no stored recipes, no conversation.
\* RecipeHandlers takes any StorageInterface, so all three implementations.
Init ==
  /\ life = NoLife
  /\ backend \in Backends
  /\ files = [u \in Users |-> Missing]
  /\ rows = <<>>
  /\ now = 0
  /\ lastOp = NoOp
  /\ callers = NoCallers
  /\ IdleConv

Next ==
  \/ \E u \in BotUsers : CmdStart(u)
  \/ \E u \in BotUsers : CmdHelp(u)
  \/ \E u \in BotUsers : CmdList(u)
  \/ \E u \in BotUsers : CmdGenerate(u)
  \/ \E u \in BotUsers : CmdAdd(u)
  \/ \E u \in BotUsers : CmdCancel(u)
  \/ \E u \in BotUsers, text \in UserTexts, llm_ok \in BOOLEAN : GenerateRecipe(u, text, llm_ok)
  \/ \E u \in BotUsers, text \in UserTexts : AddRecipeName(u, text)
  \/ \E u \in BotUsers, text \in UserTexts : AddRecipeContent(u, text)
  \/ \E u \in BotUsers, text \in UserTexts : TextIgnored(u, text)
  \/ \E u \in BotUsers, id \in IssuedIds : ViewRecipe(u, id)
  \/ \E u \in BotUsers, id \in IssuedIds : EditRecipe(u, id)
  \/ \E u \in BotUsers, id \in IssuedIds : ManualEdit(u, id)
  \/ \E u \in BotUsers, id \in IssuedIds : DeleteButton(u, id)
  \/ \E u \in BotUsers : ListRecipes(u)
  \/ \E u \in BotUsers, id \in IssuedIds, llm_ok \in BOOLEAN : VerifyRecipe(u, id, llm_ok)

Spec == Init /\ [][Next]_vars

\* ------------------------------------------------------ claims on the handlers

UserRecipes(u) == get_recipes(backend, Store, u)
UserRecipesNext(u) == get_recipes(backend, StoreNext, u)

\* The recipes of the list after an event that were not in it before.
Added(u) ==
  {i \in 1..Len(UserRecipesNext(u)) :
     \A j \in 1..Len(UserRecipes(u)) : UserRecipes(u)[j].id # UserRecipesNext(u)[i].id}

\* C2: when "AI verify" is pressed for a stored recipe X that the edit menu
\* selected, and the language model returns a text, the storage afterwards
\* holds X with that text as content, a refreshed updated_at and
\* is_ai_generated true, and as many recipes as before.
C2_VerifyPersists ==
  [][\A u \in BotUsers :
       ( /\ backend \in BotBackends
         /\ ev'.handler = "verify_recipe"
         /\ ev'.user = u
         /\ user_data[u].editing_recipe_id = <<ev'.data[2]>>
         /\ get_recipe(backend, Store, u, ev'.data[2]) # <<>>
         /\ ev'.llm # <<>>
         /\ ev'.llm[1].out # <<>> )
       => LET before == get_recipe(backend, Store, u, ev'.data[2])[1]
              after == get_recipe(backend, StoreNext, u, ev'.data[2])
          IN /\ Len(ev'.llm) = 1
             /\ ev'.llm[1].fn = "update_recipe"
             /\ ev'.llm[1].arg = before.content
             /\ after # <<>>
             /\ after[1].content = ev'.llm[1].out[1]
             /\ after[1].updated_at > before.updated_at
             /\ after[1].is_ai_generated
             /\ Len(UserRecipesNext(u)) = Len(UserRecipes(u))]_vars

\* C8: a text handled in WAITING_FOR_INGREDIENTS makes one generate_recipe
\* call, adds exactly one recipe, flagged is_ai_generated, whose content is
\* the returned text, replies with that text, and ends the generate
\* conversation.
C8_GenerateFlow ==
  [][\A u \in BotUsers :
       (genState[u] = "WAITING_FOR_INGREDIENTS" /\ ev'.kind = "text" /\ ev'.user = u)
       => /\ ev'.handler = "generate_recipe"
          /\ Len(ev'.llm) = 1
          /\ ev'.llm[1].fn = "generate_recipe"
          /\ ev'.llm[1].arg = ev'.data
          /\ Len(UserRecipesNext(u)) = Len(UserRecipes(u)) + 1
          /\ \E i \in Added(u) :
                /\ Added(u) = {i}
                /\ UserRecipesNext(u)[i].is_ai_generated
                /\ UserRecipesNext(u)[i].content = ev'.llm[1].out[1]
          /\ \A j \in 1..Len(UserRecipes(u)) :
                \E i \in 1..Len(UserRecipesNext(u)) : UserRecipesNext(u)[i] = UserRecipes(u)[j]
          /\ \E k \in 1..Len(ev'.replies) : ev'.replies[k].text = ev'.llm[1].out[1]
          /\ genState'[u] = END
          /\ ev'.returned = <<END>>]_vars

\* A generate step has run on a collection that already held a recipe.
C8_Witness ==
  /\ ev.handler = "generate_recipe"
  /\ Len(UserRecipes(ev.user)) = 2
  /\ \E i \in 1..2 : UserRecipes(ev.user)[i].content = ev.llm[1].out[1]

\* C9: a text handled in WAITING_FOR_RECIPE_CONTENT adds exactly one recipe,
\* not flagged is_ai_generated, with the message text as content, leaves
\* user_data empty and ends the add conversation.
C9_ContentStepPersists ==
  [][\A u \in BotUsers :
       ( /\ genState[u] = END
         /\ addState[u] = "WAITING_FOR_RECIPE_CONTENT"
         /\ ev'.kind = "text"
         /\ ev'.user = u )
       => /\ ~ev'.raised
          /\ Len(UserRecipesNext(u)) = Len(UserRecipes(u)) + 1
          /\ \E i \in Added(u) :
                /\ UserRecipesNext(u)[i].content = ev'.data
                /\ ~UserRecipesNext(u)[i].is_ai_generated
          /\ user_data'[u] = EmptyData
          /\ addState'[u] = END]_vars

\* C10: /cancel sent right after the "Manual Edit" or the "Edit" button, or
\* while a conversation waits, is handled by cancel_command, and afterwards
\* user_data is empty and no conversation of the user waits.
C10_CancelEverywhere ==
  [][\A u \in BotUsers :
       ( /\ ev'.kind = "cmd_cancel"
         /\ ev'.user = u
         /\ \/ genState[u] # END
            \/ addState[u] # END
            \/ ev.returned \in {<<"CHOOSING_EDIT_TYPE">>, <<"WAITING_FOR_RECIPE_UPDATE">>} )
       => /\ ev'.handler = "cancel_command"
          /\ user_data'[u] = EmptyData
          /\ genState'[u] = END
          /\ addState'[u] = END]_vars

\* No conversation of the user waits for a message.
Idle(u) == genState[u] = END /\ addState[u] = END

\* C11: in every reachable state in which the user has no flow in progress,
\* user_data is empty; in particular when verify_recipe has just ended the
\* edit flow (returned END) and neither conversation waits.
C11_IdleScratchEmpty ==
  \A u \in BotUsers :
    (ev.user = u /\ ev.handler = "verify_recipe" /\ ev.returned = <<END>> /\ Idle(u))
    => user_data[u] = EmptyData

EntityInit ==
  /\ life = NoLife
  /\ backend = "json"
  /\ files = [u \in Users |-> Missing]
  /\ rows = <<>>
  /\ now = 0
  /\ lastOp = NoOp
  /\ callers = NoCallers
  /\ IdleConv

\* datetime.now() may read a later time at the next call.
EntityTick ==
  /\ now < MaxClock
  /\ now' = now + 1
  /\ UNCHANGED <<backend, life, files, rows, lastOp, callers, convVars>>

EntityCreate(u, name, content, is_ai_generated) ==
  /\ lastOp' = [NoOp EXCEPT !.op = "create_new", !.user = u,
                            !.recipe = <<create_new(u, name, content, is_ai_generated, now)>>]
  /\ UNCHANGED <<backend, life, files, rows, now, callers, convVars>>

EntityUpdate(new_content) ==
  /\ lastOp.recipe # <<>>
  /\ lastOp' = [lastOp EXCEPT !.op = "update_content",
                              !.recipe = <<update_content(lastOp.recipe[1], new_content, now)>>]
  /\ UNCHANGED <<backend, life, files, rows, now, callers, convVars>>

EntityNext ==
  \/ EntityTick
  \/ \E u \in Users, name \in UserTexts, content \in UserTexts, flag \in BOOLEAN :
       EntityCreate(u, name, content, flag)
  \/ \E new_content \in UserTexts : EntityUpdate(new_content)

EntitySpec == EntityInit /\ [][EntityNext]_vars

\* C13: update_content(new_content) sets content to new_content and updated_at
\* to the current time, which is >= created_at under a clock that never goes
\* back, and leaves id, created_at, name and is_ai_generated as they were.
C13_UpdateContentFrame ==
  [][\A new_content \in UserTexts :
       EntityUpdate(new_content)
       => LET old == lastOp.recipe[1]
              new == lastOp'.recipe[1]
          IN /\ new.content = new_content
             /\ new.updated_at = now
             /\ new.updated_at >= new.created_at
             /\ new.id = old.id
             /\ new.created_at = old.created_at
             /\ new.name = old.name
             /\ new.is_ai_generated = old.is_ai_generated]_vars

\* An AI-flagged recipe got another content at a later clock reading.
C13_Witness ==
  /\ lastOp.op = "update_content"
  /\ lastOp.recipe[1].is_ai_generated
  /\ lastOp.recipe[1].updated_at > lastOp.recipe[1].created_at
  /\ lastOp.recipe[1].content # lastOp.recipe[1].name

\* C14: no two recipes of one user's collection have the same id, after any
\* sequence of save_recipe, update_recipe and delete_recipe calls.
C14_UniqueIds ==
  \A u \in Users :
    LET recipes == get_recipes(backend, Store, u)
    IN \A i, j \in 1..Len(recipes) : recipes[i].id = recipes[j].id => i = j

\* ------------------------------------------------------------ the read path

\* self.pool of PostgreSQLStorage: a pool after initialize, None before it or
\* after it failed, or a pool whose connections fail.
Pools == {"ready", "none", "failing"}

\* get_recipes of the file backends catches every exception of open and
\* json.load; PostgreSQLStorage.get_recipes catches only the parsing of a row,
\* not self.pool.acquire() and conn.fetch().
get_recipes_raises(b, pool) == b = "postgres" /\ pool # "ready"

GetRecipes(u, pool) ==
  /\ lastOp' = [op |-> "get_recipes", user |-> u, id |-> <<>>, recipe |-> <<>>,
                nargs |-> 1, raised |-> get_recipes_raises(backend, pool),
                found |-> /\ ~get_recipes_raises(backend, pool)
                          /\ get_recipes(backend, Store, u) # <<>>,
                file |-> file_before(u)]
  /\ UNCHANGED <<backend, life, files, rows, now, callers, convVars>>

ReadNext ==
  \/ \E u \in Users, r \in StorageRecipes : SaveRecipe(u, r)
  \/ \E u \in Users, rid \in StorageIds : DeleteRecipe(u, rid)
  \/ \E u \in Users, pool \in Pools : GetRecipes(u, pool)

ReadSpec == StorageInit /\ [][ReadNext]_vars

\* C15: get_recipes(u) never raises, and returns an empty collection when the
\* user's data is missing or unreadable.
C15_GetRecipesNeverRaises ==
  lastOp.op = "get_recipes"
  => /\ ~lastOp.raised
     /\ (backend \in FileBackends /\ files[lastOp.user].kind # "json") => ~lastOp.found

\* ------------------------------------------------------- failing writes

\* Where a save_recipe that raises fails: the file backends at open(path, 'w')
\* or, the file already truncated, at json.dump; the relational backend at
\* its one statement.
WriteFaults == {"open", "dump"}

\* The persisted state a save_recipe that raised leaves behind.
failed_save(b, st, user_id, fault) ==
  IF b \in FileBackends /\ fault = "dump"
  THEN [st EXCEPT !.files = [st.files EXCEPT ![user_id] = Corrupt]]
  ELSE st

\* generate_recipe when storage.save_recipe raises: the exception leaves the
\* handler, so nothing is sent after "Creating your recipe..." and the
\* conversation keeps its state.
GenerateRecipeWriteFails(u, text, llm_ok, fault) ==
  /\ genState[u] = "WAITING_FOR_INGREDIENTS"
  /\ now < MaxClock
  /\ now' = now + 1
  /\ LET recipe_content == llm_generate_recipe(text, llm_ok)
         st == failed_save(backend, Store, u, fault)
     IN /\ files' = st.files
        /\ rows' = st.rows
        /\ ev' = Event("text", u, text, "generate_recipe", TRUE,
                       <<LLMCall("generate_recipe", text, <<recipe_content>>)>>, 0, 1,
                       <<Reply("creating", <<>>)>>)
  /\ UNCHANGED <<backend, life, lastOp, callers, genState, addState, user_data, buttons>>

\* add_recipe_content when storage.save_recipe raises: no reply, user_data
\* and the conversation state stay.
AddRecipeContentWriteFails(u, text, fault) ==
  /\ genState[u] = END
  /\ addState[u] = "WAITING_FOR_RECIPE_CONTENT"
  /\ user_data[u].recipe_name # <<>>
  /\ now < MaxClock
  /\ now' = now + 1
  /\ LET st == failed_save(backend, Store, u, fault)
     IN /\ files' = st.files
        /\ rows' = st.rows
  /\ ev' = Event("text", u, text, "add_recipe_content", TRUE, <<>>, 0, 1, <<>>)
  /\ UNCHANGED <<backend, life, lastOp, callers, genState, addState, user_data, buttons>>

\* The persisted state a JSONFileStorage.update_recipe that raised at its
\* write leaves behind.
failed_update(b, st, user_id, fault) ==
  IF b = "json" /\ fault = "dump"
  THEN [st EXCEPT !.files = [st.files EXCEPT ![user_id] = Corrupt]]
  ELSE st

\* verify_recipe when the language model answered and the write of
\* storage.update_recipe raises (JSONFileStorage; the other two backends raise
\* at the call, see VerifyRecipe): the except branch answers.
VerifyRecipeWriteFails(u, id, fault) ==
  /\ <<"ai_verify", id>> \in buttons[u]
  /\ backend = "json"
  /\ user_data[u].editing_recipe_id # <<>>
  /\ get_recipe(backend, Store, u, user_data[u].editing_recipe_id[1]) # <<>>
  /\ now < MaxClock
  /\ now' = now + 1
  /\ LET found == get_recipe(backend, Store, u, user_data[u].editing_recipe_id[1])
         improved == llm_update_recipe(found[1].content, TRUE)
         st == failed_update(backend, Store, u, fault)
     IN /\ files' = st.files
        /\ rows' = st.rows
        /\ ev' = Returning(Event("callback", u, <<"ai_verify", id>>, "verify_recipe", FALSE,
                                 <<LLMCall("update_recipe", found[1].content, improved)>>,
                                 1, 1,
                                 <<Reply("verifying", <<>>), Reply("verify_error", <<>>)>>),
                           END)
  /\ user_data' = [user_data EXCEPT ![u] = clear_data(@)]
  /\ UNCHANGED <<backend, life, lastOp, callers, genState, addState, buttons>>

FaultNext ==
  \/ \E u \in BotUsers : CmdGenerate(u)
  \/ \E u \in BotUsers : CmdAdd(u)
  \/ \E u \in BotUsers : CmdCancel(u)
  \/ \E u \in BotUsers : CmdList(u)
  \/ \E u \in BotUsers, id \in IssuedIds : ViewRecipe(u, id)
  \/ \E u \in BotUsers, id \in IssuedIds : EditRecipe(u, id)
  \/ \E u \in BotUsers, id \in IssuedIds, llm_ok \in BOOLEAN : VerifyRecipe(u, id, llm_ok)
  \/ \E u \in BotUsers, id \in IssuedIds, fault \in WriteFaults :
       VerifyRecipeWriteFails(u, id, fault)
  \/ \E u \in BotUsers, text \in UserTexts, llm_ok \in BOOLEAN : GenerateRecipe(u, text, llm_ok)
  \/ \E u \in BotUsers, text \in UserTexts : AddRecipeName(u, text)
  \/ \E u \in BotUsers, text \in UserTexts : AddRecipeContent(u, text)
  \/ \E u \in BotUsers, text \in UserTexts, llm_ok \in BOOLEAN, fault \in WriteFaults :
       GenerateRecipeWriteFails(u, text, llm_ok, fault)
  \/ \E u \in BotUsers, text \in UserTexts, fault \in WriteFaults :
       AddRecipeContentWriteFails(u, text, fault)

FaultSpec == Init /\ [][FaultNext]_vars

\* C16: when the storage write of the generate flow or of the manual add flow
\* fails, the user gets a failure reply and the user's persisted collection is
\* what it was before the write.
C16_WriteFailureReported ==
  [][\A u \in BotUsers :
       (ev'.user = u /\ ev'.raised /\ ev'.writes = 1
          /\ ev'.handler \in {"generate_recipe", "add_recipe_content"})
       => /\ \E k \in 1..Len(ev'.replies) : ev'.replies[k].kind = "failure"
          /\ UserRecipesNext(u) = UserRecipes(u)]_vars

\* C17: when "AI verify" fails, at the language-model call or at the storage
\* update after it, the user gets the failure message, the stored recipe is
\* what it was, user_data is empty afterwards and verify_recipe returns END.
C17_VerifyFailureKeepsRecipe ==
  [][\A u \in BotUsers :
       ( /\ ev'.user = u
         /\ ev'.handler = "verify_recipe"
         /\ ev'.llm # <<>>
         /\ \A k \in 1..Len(ev'.replies) : ev'.replies[k].kind # "verified" )
       => LET rid == user_data[u].editing_recipe_id[1]
          IN /\ \E k \in 1..Len(ev'.replies) : ev'.replies[k].kind = "verify_error"
             /\ get_recipe(backend, StoreNext, u, rid) = get_recipe(backend, Store, u, rid)
             /\ user_data'[u] = EmptyData
             /\ ev'.returned = <<END>>]_vars

\* C18: every handled event (command, text in a waiting state, button press)
\* makes at most one storage read, at most one storage write and at most one
\* language-model call, and sends exactly one reply.
C18_OneCallOneReply ==
  ev.handler # "none"
    => /\ ev.reads <= 1
       /\ ev.writes <= 1
       /\ Len(ev.llm) <= 1
       /\ Len(ev.replies) = 1

\* C19: pressing a "list", "back" or "view" button writes nothing: every
\* user's stored collection is the same before and after, and "list" shows
\* one entry per stored recipe, in stored order, or the empty notice.
C19_MenuButtonsReadOnly ==
  [][\A u \in BotUsers :
       ( /\ ev'.user = u
         /\ ev'.kind = "callback"
         /\ ev'.data[1] \in {"list", "view"} )
       => /\ files' = files
          /\ rows' = rows
          /\ ev'.writes = 0
          /\ \A v \in Users :
               get_recipes(backend, StoreNext, v) = get_recipes(backend, Store, v)
          /\ ev'.data = ListButton
               => LET stored == get_recipes(backend, StoreNext, u)
                  IN ev'.replies =
                       IF stored = <<>> THEN <<Reply("no_recipes", <<>>)>>
                       ELSE <<Reply("list", [i \in 1..Len(stored) |-> stored[i].id])>>]_vars

C19_Witness ==
  /\ ev.kind = "callback"
  /\ ev.data = ListButton
  /\ ev.replies # <<>>
  /\ ev.replies[1].kind = "list"
  /\ Len(ev.replies[1].text) = 2

\* C20: a free-text message from a user whose conversations expect no text is
\* taken by no handler: conversation state, user_data and storage stay as they
\* were, nothing is replied and the language model is not called.  (Stated
\* for every user outside the three registered waiting states, which includes
\* the users the claim speaks of.)
C20_StrayTextIgnored ==
  [][\A u \in BotUsers :
       ( /\ ev'.kind = "text"
         /\ ev'.user = u
         /\ genState[u] = END
         /\ addState[u] = END )
       => /\ ev'.handler = "none"
          /\ ev'.llm = <<>>
          /\ ev'.replies = <<>>
          /\ ev'.reads = 0 /\ ev'.writes = 0
          /\ genState' = genState
          /\ addState' = addState
          /\ user_data' = user_data
          /\ files' = files
          /\ rows' = rows]_vars

C20_Witness ==
  /\ ev.kind = "text"
  /\ ev.handler = "none"
  /\ user_data[ev.user].editing_recipe_id # <<>>
  /\ get_recipes(backend, Store, ev.user) # <<>>

\* C21: right after a flow entry point (/generate, /add, or the "edit" button
\* of a recipe) user_data holds nothing of an earlier flow: it is empty after
\* the two commands, and after "edit" it holds only what the edit menu put
\* there for the chosen recipe.  (Stated for a user who is in neither
\* conversation when the entry event arrives.)
C21_EntryResetsScratch ==
  [][\A u \in BotUsers :
       (ev'.user = u /\ Idle(u))
       => /\ ev'.handler \in {"generate_start", "add_recipe_start"}
               => user_data'[u] = EmptyData
          /\ (ev'.kind = "callback" /\ ev'.data[1] = "edit")
               => /\ user_data'[u].recipe_name = <<>>
                  /\ user_data'[u].editing_recipe_id = <<ev'.data[2]>>
                  /\ LET recipe == get_recipe(backend, Store, u, ev'.data[2])
                     IN user_data'[u].original_recipe =
                          IF recipe # <<>> THEN <<recipe[1].content>> ELSE <<>>]_vars

\* C22: when "Manual Edit" was just chosen (handle_callback returned
\* WAITING_FOR_RECIPE_UPDATE) and the user then sends the updated text, a
\* handler takes the message and returns END, so the edit flow is idle again.
C22_ManualEditTextHandled ==
  [][( /\ ev.kind = "callback"
       /\ ev.data[1] = "manual_edit"
       /\ ev.returned = <<"WAITING_FOR_RECIPE_UPDATE">>
       /\ ev'.kind = "text"
       /\ ev'.user = ev.user )
     => /\ ev'.handler # "none"
        /\ ev'.returned = <<END>>]_vars

\* Nothing is stored for the user: no file or a file holding the empty list,
\* no row of the user in the table.
NothingStored(u) ==
  IF backend = "postgres"
  THEN \A i \in 1..Len(rows) : rows[i].user_id # u
  ELSE files[u] = Missing \/ files[u] = JsonFile(<<>>)

\* C23: while a user has nothing stored (never saved, or everything deleted),
\* get_recipes returns the empty list, and /list and the "list" button answer
\* with the "no recipes" message alone and show no recipe button.
C23_EmptyListMessage ==
  [][\A u \in BotUsers :
       NothingStored(u)
       => /\ get_recipes(backend, Store, u) = <<>>
          /\ ( /\ ev'.user = u
               /\ \/ ev'.handler = "list_recipes"
                  \/ ev'.kind = "callback" /\ ev'.data = ListButton )
             => /\ ev'.replies = <<Reply("no_recipes", <<>>)>>
                /\ buttons'[u] = buttons[u]]_vars

\* The "list" button pressed after the last recipe was deleted.
C23_Witness ==
  /\ ev.kind = "callback"
  /\ ev.data = ListButton
  /\ ev.replies = <<Reply("no_recipes", <<>>)>>
  /\ NothingStored(ev.user)
  /\ now > 0

\* ------------------------------------------- serialisation of one recipe

\* The recipes handed to to_dict: every combination of the field values below.
CodecRecipes ==
  {Recipe(id, name, content, c, c + d, ai) :
     id \in StorageIds, name \in {<<"Soup">>, <<>>}, content \in UserTexts,
     c \in 1..MaxClock, d \in 0..1, ai \in BOOLEAN}

\* One recipe in memory (lastOp.recipe) and an empty store.
CodecInit ==
  /\ life = NoLife
  /\ backend \in Backends
  /\ files = [u \in Users |-> Missing]
  /\ rows = <<>>
  /\ now = MaxClock + 1
  /\ \E r \in CodecRecipes : lastOp = [NoOp EXCEPT !.recipe = <<r>>]
  /\ callers = NoCallers
  /\ IdleConv

\* Recipe.from_dict(r.to_dict()); lastOp.recipe becomes <<r, result>>.
DictRoundTrip ==
  /\ lastOp.op = "none"
  /\ lastOp' = [lastOp EXCEPT !.op = "from_dict",
                              !.recipe = <<lastOp.recipe[1],
                                           from_dict(to_dict(lastOp.recipe[1]))>>]
  /\ UNCHANGED <<backend, life, files, rows, now, callers, convVars>>

\* save_recipe(u, r) into the empty store, then get_recipes(u): r through the
\* backend's stored form; lastOp.recipe becomes <<r>> followed by what is read.
StoredRoundTrip(u) ==
  /\ lastOp.op = "none"
  /\ LET st == save_recipe(backend, Store, u, lastOp.recipe[1])
     IN /\ files' = st.files
        /\ rows' = st.rows
        /\ lastOp' = [lastOp EXCEPT !.op = "stored", !.user = u,
                                    !.recipe = <<lastOp.recipe[1]>>
                                                 \o get_recipes(backend, st, u)]
  /\ UNCHANGED <<backend, life, now, callers, convVars>>

CodecNext ==
  \/ DictRoundTrip
  \/ \E u \in Users : StoredRoundTrip(u)

CodecSpec == CodecInit /\ [][CodecNext]_vars

\* C24: from_dict(to_dict(r)) equals r in all six fields, and so does the
\* recipe read back after r went through a backend's stored form (the JSON
\* list of the user's file, the data column of the table).
C24_RoundTrip ==
  lastOp.op \in {"from_dict", "stored"}
    => lastOp.recipe = <<lastOp.recipe[1], lastOp.recipe[1]>>

C24_Witness ==
  /\ lastOp.op = "stored"
  /\ backend = "postgres"
  /\ Len(lastOp.recipe) = 2
  /\ lastOp.recipe[2].is_ai_generated
  /\ lastOp.recipe[2].updated_at > lastOp.recipe[2].created_at

\* ------------------------------------ the language-model client's request

InvalidKeyText == <<"Error: Invalid OpenAI API key. Please check your API key.">>
RateLimitText == <<"Error: Rate limit exceeded. Please try again in a few moments.">>
HttpErrorText(status) == <<"Sorry, I couldn't generate a recipe. Error:", status>>

HttpStatuses == {200, 400, 401, 403, 429, 500, 503}
Ingredients == {<<"egg">>, <<"egg", "milk">>, <<"rice", "egg">>, <<>>}

\* What requests.post meets: no response at all (connection error, timeout),
\* or a response with a status and a body that is the completion with its
\* text, a JSON document without "choices", or not JSON.
Responses ==
  {[kind |-> k, status |-> 0, body |-> <<>>] : k \in {"connection_error", "timeout"}}
  \cup {[kind |-> "response", status |-> st, body |-> b] :
          st \in HttpStatuses,
          b \in {<<"completion", GeneratedText>>, <<"completion", <<"Omelette">>>>,
                 <<"no_choices">>, <<"not_json">>}}

\* The try block of generate_recipe: the value it returns, or the exception
\* class that leaves it.
try_request(resp) ==
  IF resp.kind # "response" THEN [exc |-> "RequestException", value |-> <<>>]
  ELSE IF resp.status >= 400 THEN [exc |-> "HTTPError", value |-> <<>>]
  ELSE IF resp.body[1] = "not_json" THEN [exc |-> "JSONDecodeError", value |-> <<>>]
  ELSE IF resp.body[1] = "no_choices" THEN [exc |-> "KeyError", value |-> <<>>]
  ELSE [exc |-> "", value |-> resp.body[2]]

\* A generate_recipe whose only except clause is the one for HTTPError.
openai_generate_recipe_http_only(ingredients, resp) ==
  LET t == try_request(resp)
  IN IF t.exc = "" THEN [raised |-> FALSE, out |-> t.value]
     ELSE IF t.exc = "HTTPError"
     THEN [raised |-> FALSE,
           out |-> IF resp.status = 401 THEN InvalidKeyText
                   ELSE IF resp.status = 429 THEN RateLimitText
                   ELSE HttpErrorText(resp.status)]
     ELSE [raised |-> TRUE, out |-> <<>>]

\* OpenAILLM.generate_recipe: the try block and its two except clauses.
openai_generate_recipe(ingredients, resp) ==
  LET t == try_request(resp)
  IN IF t.exc = "" THEN [raised |-> FALSE, out |-> t.value]
     ELSE IF t.exc = "HTTPError"
     THEN [raised |-> FALSE,
           out |-> IF resp.status = 401 THEN InvalidKeyText
                   ELSE IF resp.status = 429 THEN RateLimitText
                   ELSE HttpErrorText(resp.status)]
     ELSE [raised |-> FALSE, out |-> GenerateFailedText]

\* The ingredients and the response of one call (ev.data), the call not made.
LLMInit ==
  /\ life = NoLife
  /\ backend = "json"
  /\ files = [u \in Users |-> Missing]
  /\ rows = <<>>
  /\ now = 0
  /\ lastOp = NoOp
  /\ callers = NoCallers
  /\ genState = [u \in BotUsers |-> END]
  /\ addState = [u \in BotUsers |-> END]
  /\ user_data = [u \in BotUsers |-> EmptyData]
  /\ buttons = [u \in BotUsers |-> {}]
  /\ \E ingredients \in Ingredients, resp \in Responses :
       ev = [NoEvent EXCEPT !.data = <<ingredients, resp>>]

\* await self.llm.generate_recipe(ingredients)
GenerateRecipeCall ==
  /\ ev.llm = <<>>
  /\ LET r == openai_generate_recipe(ev.data[1], ev.data[2])
     IN ev' = [ev EXCEPT !.raised = r.raised,
                         !.llm = <<LLMCall("generate_recipe", ev.data[1], r.out)>>]
  /\ UNCHANGED <<backend, life, files, rows, now, lastOp, callers,
                 genState, addState, user_data, buttons>>

LLMNext == GenerateRecipeCall

LLMSpec == LLMInit /\ [][LLMNext]_vars

\* C25: generate_recipe never raises; it returns the completion's text for a
\* successful response, the invalid-key message for HTTP 401, the rate-limit
\* message for HTTP 429, and a generic failure message for every other HTTP
\* error and every other exception.
C25_GenerateNeverRaises ==
  ev.llm # <<>>
    => LET resp == ev.data[2]
           out == ev.llm[1].out
           success == /\ resp.kind = "response"
                      /\ resp.status < 400
                      /\ resp.body[1] = "completion"
       IN /\ ~ev.raised
          /\ success => out = resp.body[2]
          /\ (resp.kind = "response" /\ resp.status = 401) => out = InvalidKeyText
          /\ (resp.kind = "response" /\ resp.status = 429) => out = RateLimitText
          /\ (~success /\ resp.status \notin {401, 429})
               => out \in {GenerateFailedText, HttpErrorText(resp.status)}

C25_Witness ==
  /\ ev.llm # <<>>
  /\ ev.data[2].kind = "timeout"
  /\ ev.llm[1].out = GenerateFailedText

\* ------------------------------------------ start and stop of the storage

\* max_retries and delay of PostgreSQLStorage.initialize.
MaxRetries == 5
RetryDelay == 5

\* The primary location as PersistentJSONStorage.__init__ finds it.
PrimaryStates == {"writable", "no_mkdir", "no_write", "no_remove"}

LifeFrame == UNCHANGED <<backend, files, rows, now, lastOp, callers, convVars>>

\* PersistentJSONStorage.__init__: os.makedirs on the primary path, then the
\* marker file written and removed inside try; the except branch switches to
\* the fallback path.
persistent_init(primary) ==
  IF primary = "no_mkdir" THEN [raised |-> <<"OSError">>, path |-> "none"]
  ELSE IF primary = "writable" THEN [raised |-> <<>>, path |-> "primary"]
  ELSE [raised |-> <<>>, path |-> "fallback"]

\* The constructor of the configured backend.  A second call is the one
\* start_polling makes once main has set the application up; the object of the
\* first call is dropped with its pool open.
ConstructStorage(primary) ==
  /\ \/ life.pc = "new"
     \/ life.pc = "ready" /\ life.app = "built" /\ life.round = 1 /\ backend \in BotBackends
  /\ LET made == IF backend = "persistent" THEN persistent_init(primary)
                 ELSE [raised |-> <<>>, path |-> IF backend = "json" THEN "primary" ELSE "none"]
     IN life' = IF made.raised # <<>>
                THEN [life EXCEPT !.pc = "failed", !.raised = made.raised,
                                  !.primary = primary, !.round = @ + 1]
                ELSE [life EXCEPT !.pc = "constructed", !.storage = "set",
                                  !.path = made.path, !.primary = primary,
                                  !.pool = "none", !.attempt = 0, !.connects = 0,
                                  !.sleeps = <<>>, !.round = @ + 1, !.init = "never"]
  /\ LifeFrame

\* await self.storage.initialize(): nothing to do for the persistent backend,
\* the retry loop for the relational one.
StartInitialize ==
  /\ life.pc = "constructed"
  /\ backend \in BotBackends
  /\ life' = IF backend = "postgres" THEN [life EXCEPT !.pc = "connect"]
             ELSE [life EXCEPT !.pc = "ready", !.init = "done"]
  /\ LifeFrame

\* An except branch that sleeps and tries again whatever the count.
after_failed_attempt_again(l) ==
  [l EXCEPT !.pc = "connect", !.sleeps = Append(@, RetryDelay)]

\* The except branch of the retry loop: count the attempt, raise at the last
\* one, sleep otherwise.
after_failed_attempt(l) ==
  IF l.attempt + 1 >= MaxRetries
  THEN [l EXCEPT !.attempt = @ + 1, !.pc = "failed", !.init = "failed",
                 !.raised = <<"ConnectionError">>]
  ELSE [l EXCEPT !.attempt = @ + 1, !.pc = "connect", !.sleeps = Append(@, RetryDelay)]

\* One turn of the loop: connect, SELECT 1, close, then break; or the except
\* branch.
ConnectAttempt(ok) ==
  /\ life.pc = "connect"
  /\ life.attempt < MaxRetries
  /\ life' = IF ok THEN [life EXCEPT !.connects = @ + 1, !.pc = "pool"]
             ELSE after_failed_attempt([life EXCEPT !.connects = @ + 1])
  /\ LifeFrame

\* self.pool = await asyncpg.create_pool(...)
CreatePool(ok) ==
  /\ life.pc = "pool"
  /\ life' = IF ok THEN [life EXCEPT !.pool = "open", !.pc = "tables"]
             ELSE [life EXCEPT !.pc = "failed", !.init = "failed", !.raised = <<"PoolError">>]
  /\ LifeFrame

\* await self._create_tables()
CreateTables(ok) ==
  /\ life.pc = "tables"
  /\ life' = IF ok THEN [life EXCEPT !.pc = "ready", !.init = "done"]
             ELSE [life EXCEPT !.pc = "failed", !.init = "failed", !.raised = <<"TableError">>]
  /\ LifeFrame

\* bot.setup_application() in main, after the first initialize_storage.
SetupApplication ==
  /\ life.pc = "ready"
  /\ life.app = "none"
  /\ life' = [life EXCEPT !.app = "built"]
  /\ LifeFrame

\* start_polling after its own initialize_storage: application.initialize(),
\* start() and updater.start_polling().
StartApplication ==
  /\ life.pc = "ready"
  /\ life.app = "built"
  /\ life.round = 2
  /\ life' = [life EXCEPT !.app = "running"]
  /\ LifeFrame

\* close() of each backend: PostgreSQLStorage closes the pool it has,
\* PersistentJSONStorage does nothing, JSONFileStorage has no such method.
close(b, l) ==
  IF b = "json" THEN [l EXCEPT !.raised = <<"AttributeError">>]
  ELSE IF b = "postgres" /\ l.pool = "open"
  THEN [l EXCEPT !.pool = "closed", !.closes = @ + 1]
  ELSE [l EXCEPT !.closes = @ + 1]

\* storage.close() called on the object itself: before initialize(), after it
\* failed, or after it succeeded.
CloseStorage ==
  /\ life.storage = "set"
  /\ life.app = "none"
  /\ life.pc \in {"constructed", "failed", "ready"}
  /\ life' = [close(backend, [life EXCEPT !.raised = <<>>]) EXCEPT !.pc = "closed"]
  /\ LifeFrame

\* RecipeBot.stop(), from the finally of main: the application is stopped
\* first, and Updater.stop() raises when the updater is not running; then
\* storage.close() when self.storage is set.
BotStop ==
  /\ backend \in BotBackends
  /\ life.pc \in {"failed", "ready"}
  /\ life' = IF life.app = "built"
             THEN [life EXCEPT !.pc = "stopped", !.raised = <<"RuntimeError">>]
             ELSE IF life.storage = "set"
             THEN [close(backend, [life EXCEPT !.raised = <<>>]) EXCEPT
                     !.pc = "stopped",
                     !.app = IF life.app = "running" THEN "stopped" ELSE @]
             ELSE [life EXCEPT !.pc = "stopped", !.raised = <<>>]
  /\ LifeFrame

LifeInit ==
  /\ life = NoLife
  /\ backend \in Backends
  /\ files = [u \in Users |-> Missing]
  /\ rows = <<>>
  /\ now = 0
  /\ lastOp = NoOp
  /\ callers = NoCallers
  /\ IdleConv

InitializeStep ==
  \/ \E ok \in BOOLEAN : ConnectAttempt(ok)
  \/ \E ok \in BOOLEAN : CreatePool(ok)
  \/ \E ok \in BOOLEAN : CreateTables(ok)

LifeNext ==
  \/ \E primary \in PrimaryStates : ConstructStorage(primary)
  \/ StartInitialize
  \/ InitializeStep
  \/ SetupApplication
  \/ StartApplication
  \/ CloseStorage
  \/ BotStop

\* initialize() is one coroutine that the event loop runs on: each of its
\* awaits returns or raises.
LifeSpec == LifeInit /\ [][LifeNext]_vars /\ WF_vars(InitializeStep)

\* The counts of one initialize() call: never more than MaxRetries connection
\* attempts, one sleep of RetryDelay after each failed attempt but the last,
\* pool and tables only after an attempt that succeeded, and the fatal raise
\* only after MaxRetries failed attempts.
InitializeBounded ==
  backend = "postgres"
    => /\ life.connects <= MaxRetries
       /\ life.attempt <= MaxRetries
       /\ \A i \in 1..Len(life.sleeps) : life.sleeps[i] = RetryDelay
       /\ life.pc = "connect"
            => life.connects = life.attempt /\ Len(life.sleeps) = life.attempt
       /\ life.pc \in {"pool", "tables"}
            => life.connects = life.attempt + 1 /\ Len(life.sleeps) = life.attempt
       /\ (life.pc = "failed" /\ life.raised = <<"ConnectionError">>)
            => /\ life.connects = MaxRetries
               /\ Len(life.sleeps) = MaxRetries - 1
               /\ life.pool = "none"

\* C26: PostgreSQLStorage.initialize makes at most 5 connection attempts with
\* the fixed delay between consecutive ones, goes on to pool and tables after
\* the first attempt that succeeds, raises after the 5th failure without
\* another attempt, and every call of it ends, ready or failed.
C26_InitializeTerminates ==
  /\ []InitializeBounded
  /\ [][\A ok \in BOOLEAN :
          ConnectAttempt(ok)
          => /\ ok => life'.pc = "pool"
             /\ (~ok /\ life.attempt = MaxRetries - 1) => life'.pc = "failed"
             /\ (~ok /\ life.attempt < MaxRetries - 1)
                  => life'.pc = "connect" /\ life'.sleeps = Append(life.sleeps, RetryDelay)]_vars
  /\ (life.pc \in {"connect", "pool", "tables"}) ~> (life.pc \in {"ready", "failed"})

\* The fatal raise after the last attempt.
C26_Witness ==
  /\ backend = "postgres"
  /\ life.pc = "failed"
  /\ life.raised = <<"ConnectionError">>
  /\ life.connects = MaxRetries

\* C27: close() raises for no backend, whether initialize() was never called,
\* failed part-way or succeeded, and a stop of the bot after a failed
\* initialize() reaches storage.close().
C27_CloseAlwaysSafe ==
  /\ life.pc = "closed" => life.raised = <<>>
  /\ (life.pc = "stopped" /\ life.storage = "set" /\ life.init \in {"never", "failed"})
       => life.raised = <<>> /\ life.closes >= 1

\* C28: PersistentJSONStorage built on a primary location that cannot be
\* created or written does not raise and uses the fallback location.
C28_FallbackWhenUnwritable ==
  (backend = "persistent" /\ life.primary \in {"no_mkdir", "no_write", "no_remove"}
     /\ life.pc \in {"constructed", "failed"} /\ life.round = 1)
    => /\ life.raised = <<>>
       /\ life.storage = "set"
       /\ life.path = "fallback"

\* C29: on the persistent file backend save_recipe(u, r) puts r in the place
\* of the stored recipe of the same id, the length and the other recipes as
\* they were, or appends r at the end when the id is not stored; no id is
\* stored twice afterwards.
C29_PersistentUpsert ==
  [][\A u \in Users, r \in StorageRecipes :
       (backend = "persistent" /\ SaveRecipe(u, r))
       => LET before == get_recipes(backend, Store, u)
              after == get_recipes(backend, StoreNext, u)
          IN /\ (\E i \in 1..Len(before) : before[i].id = r.id)
                  => /\ Len(after) = Len(before)
                     /\ \E i \in 1..Len(before) :
                          before[i].id = r.id /\ after = [before EXCEPT ![i] = r]
             /\ (\A i \in 1..Len(before) : before[i].id # r.id)
                  => after = Append(before, r)
             /\ \A i, j \in 1..Len(after) : after[i].id = after[j].id => i = j]_vars

\* A save over the first of two stored recipes.
C29_Witness ==
  /\ backend = "persistent"
  /\ lastOp.op = "save"
  /\ lastOp.found
  /\ Len(get_recipes(backend, Store, lastOp.user)) = 2
  /\ get_recipes(backend, Store, lastOp.user)[1] = lastOp.recipe[1]

\* C30: after an update_recipe call that went through on an id the user has
\* stored, the stored recipe is the given one and its updated_at is the clock
\* reading of the call, whatever updated_at the given recipe carried.
C30_UpdateRefreshesStamp ==
  (lastOp.op = "update" /\ ~lastOp.raised /\ lastOp.found)
    => LET stored == get_recipe(backend, Store, lastOp.user, lastOp.id)
       IN /\ stored # <<>>
          /\ stored[1] = [lastOp.recipe[1] EXCEPT !.updated_at = now]

\* C31: on the file backends a call leaves the order of the user's list as
\* insertions made it (a saved new recipe goes to the end, an update or upsert
\* changes one entry where it stands, a delete only takes entries out); on the
\* relational backend get_recipes returns the recipes with created_at
\* descending.
C31_ListOrder ==
  [][\A u \in Users :
       LET before == get_recipes(backend, Store, u)
           after == get_recipes(backend, StoreNext, u)
       IN /\ backend \in FileBackends
               => \/ /\ Len(after) = Len(before)
                     /\ \A i \in 1..Len(after) :
                          after[i] = before[i] \/ <<after[i]>> = lastOp'.recipe
                  \/ /\ lastOp'.op \in {"save", "update"}
                     /\ after = before \o lastOp'.recipe
                  \/ /\ lastOp'.op = "delete"
                     /\ after = SelectSeq(before, LAMBDA r : r.id # lastOp'.id)
          /\ backend = "postgres"
               => \A i, j \in 1..Len(after) :
                    i < j => after[i].created_at >= after[j].created_at]_vars

\* C32: a view, edit or AI-verify button that names a recipe id the storage
\* does not hold for the user is answered with a "not found" reply.
C32_AbsentRecipeReported ==
  ( /\ ev.kind = "callback"
    /\ ev.data[1] \in {"view", "edit", "ai_verify"}
    /\ get_recipe(backend, Store, ev.user, ev.data[2]) = <<>> )
    => \E k \in 1..Len(ev.replies) : ev.replies[k].kind = "not_found"

\* C33: a save_recipe, update_recipe or delete_recipe call made for user u
\* leaves get_recipes(v) and get_recipe(v, id) of every other user v as they
\* were, also when the id passed is stored under v.
C33_UsersIsolated ==
  [][\A v \in Users :
       (lastOp'.op \in {"save", "update", "delete"} /\ lastOp'.user # v)
       => /\ get_recipes(backend, StoreNext, v) = get_recipes(backend, Store, v)
          /\ \A id \in StorageIds :
               get_recipe(backend, StoreNext, v, id) = get_recipe(backend, Store, v, id)]_vars

\* ------------------------------------------------ the edit menus of two recipes

\* The flows that store recipes and the menu up to "AI verify", with one clock
\* reading left for a verification after the last recipe was created.
MenuNext ==
  \/ \E u \in BotUsers : CmdGenerate(u)
  \/ \E u \in BotUsers, text \in UserTexts, llm_ok \in BOOLEAN : GenerateRecipe(u, text, llm_ok)
  \/ \E u \in BotUsers : CmdCancel(u)
  \/ \E u \in BotUsers : CmdList(u)
  \/ \E u \in BotUsers, id \in IssuedIds : ViewRecipe(u, id)
  \/ \E u \in BotUsers, id \in IssuedIds : EditRecipe(u, id)
  \/ \E u \in BotUsers, id \in IssuedIds, llm_ok \in BOOLEAN :
       VerifyRecipeUntil(u, id, llm_ok, MaxClock + 1)

MenuSpec == Init /\ [][MenuNext]_vars

\* C34: an "AI verify" press changes no stored recipe but the one whose id
\* the pressed button carries.
C34_VerifyTouchesNamedRecipe ==
  [][\A u \in BotUsers :
       (ev'.user = u /\ ev'.handler = "verify_recipe")
       => \A rid \in IssuedIds \ {ev'.data[2]} :
            get_recipe(backend, StoreNext, u, rid) = get_recipe(backend, Store, u, rid)]_vars

\* C35: while the add flow of a user waits for the recipe content, user_data
\* holds the recipe name given at the name step.
C35_NameKeptWhileWaiting ==
  \A u \in BotUsers :
    addState[u] = "WAITING_FOR_RECIPE_CONTENT" => user_data[u].recipe_name # <<>>

\* C36: on a file backend, a save_recipe or delete_recipe that finds the user's
\* file present but unparsable completes without raising and rewrites the file:
\* afterwards the file is a JSON list again and the user's collection is exactly
\* the saved recipe (empty after a delete).
C36_CorruptFileOverwritten ==
  (/\ backend \in FileBackends
   /\ lastOp.op \in {"save", "delete"}
   /\ lastOp.file = "corrupt")
  => /\ ~lastOp.raised
     /\ files[lastOp.user].kind = "json"
     /\ file_get_recipes(files, lastOp.user) = lastOp.recipe
     /\ Len(files[lastOp.user].data) = Len(lastOp.recipe)

C36_Witness ==
  /\ backend \in FileBackends
  /\ lastOp.op = "save"
  /\ lastOp.file = "corrupt"
  /\ files[lastOp.user].kind = "json"
  /\ file_get_recipes(files, lastOp.user) = lastOp.recipe

\* C37: when the generate_recipe call of the language-model client fails, the
\* generate step still stores exactly one new recipe, flagged is_ai_generated,
\* whose content is the failure message the client returned and whose name is
\* the first line of that message; the handler does not raise, its last reply
\* is the "generated and saved" text carrying the message, and the generate
\* conversation ends.
C37_FailedGenerationStored ==
  [][\A u \in BotUsers :
       ( /\ ev'.handler = "generate_recipe"
         /\ ev'.user = u
         /\ now' # now
         /\ ev'.llm = <<LLMCall("generate_recipe", ev'.data, <<GenerateFailedText>>)>> )
       => /\ ~ev'.raised
          /\ Len(UserRecipesNext(u)) = Len(UserRecipes(u)) + 1
          /\ \E i \in Added(u) :
                /\ Added(u) = {i}
                /\ UserRecipesNext(u)[i].is_ai_generated = TRUE
                /\ UserRecipesNext(u)[i].content = GenerateFailedText
                /\ UserRecipesNext(u)[i].name = <<GenerateFailedText[1]>>
          /\ \A j \in 1..Len(UserRecipes(u)) :
                \E i \in 1..Len(UserRecipesNext(u)) : UserRecipesNext(u)[i] = UserRecipes(u)[j]
          /\ ev'.replies[Len(ev'.replies)] = Reply("generated", GenerateFailedText)
          /\ genState'[u] = END
          /\ ev'.returned = <<END>>]_vars

\* A generate step whose client call failed has stored the failure message.
C37_Witness ==
  /\ ev.handler = "generate_recipe"
  /\ ~ev.raised
  /\ ev.llm # <<>>
  /\ ev.llm[1].out = <<GenerateFailedText>>
  /\ \E i \in 1..Len(UserRecipes(ev.user)) :
       /\ UserRecipes(ev.user)[i].content = GenerateFailedText
       /\ UserRecipes(ev.user)[i].is_ai_generated = TRUE
       /\ UserRecipes(ev.user)[i].name = <<GenerateFailedText[1]>>

\* C38: a user is never in WAITING_FOR_INGREDIENTS of the generate conversation
\* and in a waiting state of the add conversation at the same time.
C38_OneFlowAtATime ==
  \A u \in BotUsers : ~(genState[u] # END /\ addState[u] # END)

\* C39: on the relational backend every row's name, content, created_at,
\* updated_at and is_ai_generated columns equal the fields of the recipe
\* serialized in the row's data column, after any save_recipe and
\* update_recipe calls.
C39_ColumnsMatchPayload ==
  backend = "postgres"
  => \A i \in 1..Len(rows) :
       LET recipe == from_dict(rows[i].data)
       IN /\ rows[i].name = recipe.name
          /\ rows[i].content = recipe.content
          /\ rows[i].created_at = recipe.created_at
          /\ rows[i].updated_at = recipe.updated_at
          /\ rows[i].is_ai_generated = recipe.is_ai_generated

====
